---- MODULE Spec2Model ----
(***************************************************************************)
(* Model of backend_server.py: a single-threaded HTTP echo backend.        *)
(*                                                                         *)
(* The process is modelled from its entry point (the __main__ block)       *)
(* through run_backend, the serve_forever loop of the stock single-thread  *)
(* HTTPServer, the two request handlers do_GET / do_POST, and the          *)
(* KeyboardInterrupt path.  Handlers are split at their I/O points         *)
(* (header parse, body read, header write, body write) because the         *)
(* interrupt is raised in the same thread and can land between any two of  *)
(* them.                                                                   *)
(*                                                                         *)
(* Strings that the program converts (port argument, Content-Length        *)
(* header, default backend name) are sequences of one-character strings so *)
(* that int() and the f-string formatting are computed, not assumed.       *)
(***************************************************************************)
EXTENDS Integers, Sequences, FiniteSets, TLC

VARIABLES
    argv,            \* sys.argv, argv[1] is the program name (sys.argv[0])
    pc,              \* position of the main thread outside the serve loop
    exit_code,       \* process exit status, NoExit while running
    stdout,          \* lines printed to standard output, in order
    port,            \* run_backend's parameter `port`
    name,            \* run_backend's parameter `name`
    server,          \* the HTTPServer object, NoServer before it is built
    is_shut_down,    \* the server's "serve_forever has exited" event
    pending,         \* connections in the listen backlog, not yet accepted
    conns,           \* every accepted connection, in accept order
    cur,             \* index in conns of the connection being handled, 0 if none
    hpc,             \* position of the main thread inside the handler
    content_length,  \* do_POST's local content_length
    avail,           \* body bytes received so far on the current connection
    eof,             \* the current client has closed its sending side
    interrupted,     \* a KeyboardInterrupt was delivered to serve_forever
    inflight,        \* connections that were inside a handler at the interrupt
    late,            \* connections that arrived after the interrupt
    total            \* connections opened so far

vars == <<argv, pc, exit_code, stdout, port, name, server, is_shut_down,
          pending, conns, cur, hpc, content_length, avail, eof,
          interrupted, inflight, late, total>>

----------------------------------------------------------------------------
(* Bounds of the model *)

MaxRequests == 2
MaxBody == 2

----------------------------------------------------------------------------
(* Inputs *)

Prog == <<"backend_server.py">>

\* Command lines: no port, port only, port and name, non-numeric port.
Invocations ==
    { <<Prog>>,
      <<Prog, <<"8", "0">>>>,
      <<Prog, <<"3", "0", "0", "0">>, <<"b", "1">>>>,
      <<Prog, <<"x">>>> }

\* Request targets, kept as token sequences: a bare path and one with a query.
Paths == { <<"/x">>, <<"/x", "?q=1">> }

NoHeaders == [k \in {} |-> <<>>]

\* Header blocks a client may send: no Content-Length, a numeric one and a
\* non-numeric one.
HeaderBlocks ==
    { NoHeaders }
    \cup { ("Content-Length" :> v) : v \in { <<"2">>, <<"x">> } }

\* Requests as the handler sees them once the request line and the headers
\* are parsed.  A GET is sent without a body, so without a Content-Length.
Requests ==
    [method : {"GET"}, path : Paths, headers : {NoHeaders}]
    \cup [method : {"POST"}, path : Paths, headers : HeaderBlocks]

\* Values time.time() may return.
Times == {100, 101}

NoExit == -1
NoServer == [created |-> FALSE]

----------------------------------------------------------------------------
(* Pure functions *)

Digits == {"0", "1", "2", "3", "4", "5", "6", "7", "8", "9"}

DigitVal(c) ==
    CASE c = "0" -> 0 [] c = "1" -> 1 [] c = "2" -> 2 [] c = "3" -> 3
      [] c = "4" -> 4 [] c = "5" -> 5 [] c = "6" -> 6 [] c = "7" -> 7
      [] c = "8" -> 8 [] c = "9" -> 9

DigitChar(d) ==
    CASE d = 0 -> "0" [] d = 1 -> "1" [] d = 2 -> "2" [] d = 3 -> "3"
      [] d = 4 -> "4" [] d = 5 -> "5" [] d = 6 -> "6" [] d = 7 -> "7"
      [] d = 8 -> "8" [] d = 9 -> "9"

RECURSIVE LStrip(_)
LStrip(s) == IF s # <<>> /\ Head(s) = " " THEN LStrip(Tail(s)) ELSE s

RECURSIVE RStrip(_)
RStrip(s) ==
    IF s # <<>> /\ s[Len(s)] = " " THEN RStrip(SubSeq(s, 1, Len(s) - 1)) ELSE s

RECURSIVE DigitsValue(_, _)
DigitsValue(s, acc) ==
    IF s = <<>> THEN acc ELSE DigitsValue(Tail(s), 10 * acc + DigitVal(Head(s)))

ValueError == [ok |-> FALSE, val |-> 0]

\* Python's int(str): surrounding blanks are dropped, one optional sign, then
\* one or more decimal digits; anything else raises ValueError.
PyInt(str) ==
    LET t == RStrip(LStrip(str))
        signed == t # <<>> /\ Head(t) \in {"-", "+"}
        ds == IF signed THEN Tail(t) ELSE t
    IN  IF ds = <<>> \/ \E i \in 1..Len(ds) : ds[i] \notin Digits
        THEN ValueError
        ELSE [ok |-> TRUE,
              val |-> IF signed /\ Head(t) = "-"
                      THEN 0 - DigitsValue(ds, 0)
                      ELSE DigitsValue(ds, 0)]

RECURSIVE NatStr(_)
NatStr(n) ==
    IF n < 10 THEN <<DigitChar(n)>> ELSE NatStr(n \div 10) \o <<DigitChar(n % 10)>>

\* f"backend-{port}"
DefaultName(p) == <<"backend-">> \o NatStr(p)

Min(a, b) == IF a < b THEN a ELSE b

Range(s) == { s[i] : i \in 1..Len(s) }

----------------------------------------------------------------------------
(* Initial state: the interpreter has started the script with some argv *)

Init ==
    /\ argv \in Invocations
    /\ pc = "main"
    /\ exit_code = NoExit
    /\ stdout = <<>>
    /\ port = 0
    /\ name = <<>>
    /\ server = NoServer
    /\ is_shut_down = FALSE
    /\ pending = 0
    /\ conns = <<>>
    /\ cur = 0
    /\ hpc = "idle"
    /\ content_length = 0
    /\ avail = 0
    /\ eof = FALSE
    /\ interrupted = FALSE
    /\ inflight = {}
    /\ late = 0
    /\ total = 0

netVars == <<pending, conns, cur, hpc, content_length, avail, eof, total>>
sigVars == <<interrupted, inflight, late>>
mainVars == <<argv, pc, exit_code, port, name, server, is_shut_down>>

----------------------------------------------------------------------------
(* The __main__ block and run_backend's start-up *)

\* sys.argv[i]
SysArgv(i) == argv[i + 1]

MissingPortOffByOne == Len(argv) < 1

\* len(sys.argv) < 2
MissingPort == Len(argv) < 2

\* One printed line: what it is, the backend name in it, its other text.
Line(kind, n, rest) == [kind |-> kind, name |-> n, rest |-> rest]

UsageLines ==
    << Line("usage", <<>>, <<"Usage: python backend_server.py <port> [name]">>),
       Line("example", <<>>, <<"Example: python backend_server.py 3000 backend-1">>) >>

StartupLines(p, n) ==
    << Line("starting", n, NatStr(p)),
       Line("url", <<>>, <<"http://localhost:">> \o NatStr(p)),
       Line("hint", <<>>, <<"Press Ctrl+C to stop">>) >>

ShutdownLine(n) == Line("shutdown", n, <<>>)

\* log_message: "[<backend_name>] <request line> <status>"
AccessLogLine(n, method, path) == Line("access", n, <<method>> \o path \o <<"200">>)

\* The usage branch: two lines on stdout, sys.exit(1), nothing else runs.
MainUsage ==
    /\ pc = "main"
    /\ MissingPort
    /\ stdout' = stdout \o UsageLines
    /\ exit_code' = 1
    /\ pc' = "exited"
    /\ UNCHANGED <<argv, port, name, server, is_shut_down>>
    /\ UNCHANGED netVars
    /\ UNCHANGED sigVars

\* int(sys.argv[1]) returns a value
PortArgParses == Len(argv) >= 2 /\ PyInt(SysArgv(1)).ok

\* int(sys.argv[1]) raises (no such element, or not a number): the uncaught
\* exception ends the process with status 1 before run_backend is reached.
MainBadPort ==
    /\ pc = "main"
    /\ ~MissingPort
    /\ ~PortArgParses
    /\ exit_code' = 1
    /\ pc' = "exited"
    /\ UNCHANGED <<argv, stdout, port, name, server, is_shut_down>>
    /\ UNCHANGED netVars
    /\ UNCHANGED sigVars

ParsedPort == PyInt(SysArgv(1)).val

\* sys.argv[2] if len(sys.argv) > 2 else f"backend-{port}"
ChosenName == IF Len(argv) > 2 THEN SysArgv(2) ELSE DefaultName(ParsedPort)

CanStart ==
    /\ pc = "main"
    /\ ~MissingPort
    /\ PortArgParses

NewServerIgnoringName(p, n) ==
    [created |-> TRUE, server_port |-> p, backend_name |-> DefaultName(p)]

\* HTTPServer(('localhost', port), BackendHandler) binds and records the port;
\* server.backend_name = name.
NewServer(p, n) ==
    [created |-> TRUE, server_port |-> p, backend_name |-> n]

\* run_backend(port, name) up to the call of serve_forever.
MainRunBackend ==
    /\ CanStart
    /\ port' = ParsedPort
    /\ name' = ChosenName
    /\ server' = NewServer(ParsedPort, ChosenName)
    /\ stdout' = stdout \o StartupLines(ParsedPort, ChosenName)
    /\ pc' = "serving"
    /\ UNCHANGED <<argv, exit_code, is_shut_down>>
    /\ UNCHANGED netVars
    /\ UNCHANGED sigVars

\* The bind fails (port in use): HTTPServer(...) raises, nothing is printed,
\* the process ends with status 1.
MainBindError ==
    /\ CanStart
    /\ port' = ParsedPort
    /\ name' = ChosenName
    /\ exit_code' = 1
    /\ pc' = "exited"
    /\ UNCHANGED <<argv, stdout, server, is_shut_down>>
    /\ UNCHANGED netVars
    /\ UNCHANGED sigVars

----------------------------------------------------------------------------
(* Clients *)

Listening == server.created /\ pc # "exited"

\* A client connects; the kernel queues the connection in the listen backlog.
ClientConnect ==
    /\ Listening
    /\ total < MaxRequests
    /\ total' = total + 1
    /\ pending' = pending + 1
    /\ late' = IF interrupted THEN late + 1 ELSE late
    /\ UNCHANGED <<conns, cur, hpc, content_length, avail, eof>>
    /\ UNCHANGED <<interrupted, inflight>>
    /\ UNCHANGED mainVars
    /\ UNCHANGED stdout

\* Only do_POST's rfile.read looks at body bytes; what arrives while nothing
\* reads is never observed by the program.
Reading == cur # 0 /\ hpc = "read"

\* The client of the connection being handled sends one more body byte.
ClientSend ==
    /\ pc = "serving"
    /\ Reading
    /\ ~eof
    /\ avail < MaxBody
    /\ avail' = avail + 1
    /\ UNCHANGED <<pending, conns, cur, hpc, content_length, eof, total>>
    /\ UNCHANGED sigVars
    /\ UNCHANGED mainVars
    /\ UNCHANGED stdout

\* The client of the connection being handled closes its sending side.
ClientClose ==
    /\ pc = "serving"
    /\ Reading
    /\ ~eof
    /\ eof' = TRUE
    /\ UNCHANGED <<pending, conns, cur, hpc, content_length, avail, total>>
    /\ UNCHANGED sigVars
    /\ UNCHANGED mainVars
    /\ UNCHANGED stdout

----------------------------------------------------------------------------
(* serve_forever: accept one connection, run its handler, repeat *)

CanAcceptThreaded == pc = "serving"

\* The loop reaches accept() only between handlers: the handler runs in the
\* loop's own thread.
CanAccept == pc = "serving" /\ cur = 0 /\ hpc = "idle"

NewConn(r) ==
    [method |-> r.method, path |-> r.path, headers |-> r.headers, state |-> "handling",
     status_lines |-> 0, header_blocks |-> 0, bodies |-> <<>>, body_read |-> 0]

\* The next connection is accepted and its request line and headers parsed.
Accept ==
    /\ CanAccept
    /\ pending > 0
    /\ \E r \in Requests : conns' = Append(conns, NewConn(r))
    /\ pending' = pending - 1
    /\ cur' = Len(conns) + 1
    /\ hpc' = "dispatch"
    /\ content_length' = 0
    /\ avail' = 0
    /\ eof' = FALSE
    /\ UNCHANGED total
    /\ UNCHANGED sigVars
    /\ UNCHANGED mainVars
    /\ UNCHANGED stdout

InHandler(m, at) == pc = "serving" /\ cur # 0 /\ hpc = at /\ conns[cur].method = m

\* send_response(200); send_header(...); end_headers(): the request is logged
\* and the status line and header block go out.
SendHead(c) ==
    [c EXCEPT !.status_lines = @ + 1, !.header_blocks = @ + 1]

\* The handler returned: the connection is closed and the loop goes on.
Finished(c, st) == [c EXCEPT !.state = st]

BackToLoop ==
    /\ cur' = 0
    /\ hpc' = "idle"
    /\ content_length' = 0
    /\ avail' = 0
    /\ eof' = FALSE

----------------------------------------------------------------------------
(* do_GET *)

GetResponseWithBodyLength(c, ts) ==
    [backend |-> server.backend_name, port |-> server.server_port,
     path |-> c.path, method |-> "GET", body_length |-> 0, timestamp |-> ts]

\* The dict do_GET serialises.
GetResponse(c, ts) ==
    [backend |-> server.backend_name, port |-> server.server_port,
     path |-> c.path, method |-> "GET", timestamp |-> ts]

DoGetHead ==
    /\ InHandler("GET", "dispatch")
    /\ conns' = [conns EXCEPT ![cur] = SendHead(@)]
    /\ stdout' = Append(stdout,
                        AccessLogLine(server.backend_name, "GET", conns[cur].path))
    /\ hpc' = "write"
    /\ UNCHANGED <<pending, cur, content_length, avail, eof, total>>
    /\ UNCHANGED sigVars
    /\ UNCHANGED mainVars

DoGetWrite ==
    /\ InHandler("GET", "write")
    /\ \E ts \in Times :
          conns' = [conns EXCEPT ![cur] =
                       Finished([@ EXCEPT !.bodies = Append(@, GetResponse(conns[cur], ts))],
                                "done")]
    /\ BackToLoop
    /\ UNCHANGED <<pending, total>>
    /\ UNCHANGED sigVars
    /\ UNCHANGED mainVars
    /\ UNCHANGED stdout

----------------------------------------------------------------------------
(* do_POST *)

\* int(self.headers.get('Content-Length', 0))
ContentLength(h) ==
    IF "Content-Length" \in DOMAIN h
    THEN PyInt(h["Content-Length"])
    ELSE [ok |-> TRUE, val |-> 0]

\* rfile.read(n) returns once n bytes are there or the client has closed;
\* a negative n reads to end of stream.
ReadReturns(n) == IF n >= 0 THEN (avail >= n \/ eof) ELSE eof

\* len(body)
BytesRead(n) == IF n >= 0 THEN Min(n, avail) ELSE avail

PostResponseCounting(c, ts) ==
    [backend |-> server.backend_name, port |-> server.server_port + Len(conns),
     path |-> c.path, method |-> "POST", body_length |-> content_length,
     timestamp |-> ts]

\* The dict do_POST serialises.
PostResponse(c, ts) ==
    [backend |-> server.backend_name, port |-> server.server_port,
     path |-> c.path, method |-> "POST", body_length |-> content_length,
     timestamp |-> ts]

\* Line 34 returns a number.
DoPostParse ==
    /\ InHandler("POST", "dispatch")
    /\ ContentLength(conns[cur].headers).ok
    /\ content_length' = ContentLength(conns[cur].headers).val
    /\ hpc' = "read"
    /\ UNCHANGED <<pending, conns, cur, avail, eof, total>>
    /\ UNCHANGED sigVars
    /\ UNCHANGED mainVars
    /\ UNCHANGED stdout

\* Line 34 raises ValueError: the server reports the error on stderr and closes
\* the connection; nothing was sent on it.
DoPostParseError ==
    /\ InHandler("POST", "dispatch")
    /\ ~ContentLength(conns[cur].headers).ok
    /\ conns' = [conns EXCEPT ![cur] = Finished(@, "crashed")]
    /\ BackToLoop
    /\ UNCHANGED <<pending, total>>
    /\ UNCHANGED sigVars
    /\ UNCHANGED mainVars
    /\ UNCHANGED stdout

DoPostRead ==
    /\ InHandler("POST", "read")
    /\ ReadReturns(content_length)
    /\ conns' = [conns EXCEPT ![cur].body_read = BytesRead(content_length)]
    /\ hpc' = "head"
    /\ UNCHANGED <<pending, cur, content_length, avail, eof, total>>
    /\ UNCHANGED sigVars
    /\ UNCHANGED mainVars
    /\ UNCHANGED stdout

DoPostHead ==
    /\ InHandler("POST", "head")
    /\ conns' = [conns EXCEPT ![cur] = SendHead(@)]
    /\ stdout' = Append(stdout,
                        AccessLogLine(server.backend_name, "POST", conns[cur].path))
    /\ hpc' = "write"
    /\ UNCHANGED <<pending, cur, content_length, avail, eof, total>>
    /\ UNCHANGED sigVars
    /\ UNCHANGED mainVars

DoPostWrite ==
    /\ InHandler("POST", "write")
    /\ \E ts \in Times :
          conns' = [conns EXCEPT ![cur] =
                       Finished([@ EXCEPT !.bodies = Append(@, PostResponse(conns[cur], ts))],
                                "done")]
    /\ BackToLoop
    /\ UNCHANGED <<pending, total>>
    /\ UNCHANGED sigVars
    /\ UNCHANGED mainVars
    /\ UNCHANGED stdout

----------------------------------------------------------------------------
(* KeyboardInterrupt and shutdown *)

\* What the interrupt does to the connection being handled: the exception
\* unwinds the handler and the server closes the socket as it propagates.
Unwind(cs) ==
    IF cur = 0 THEN cs ELSE [cs EXCEPT ![cur] = Finished(@, "aborted")]

InterruptLoopStillRunning ==
    /\ pc = "serving"
    /\ interrupted' = TRUE
    /\ inflight' = IF cur = 0 THEN {} ELSE {cur}
    /\ conns' = Unwind(conns)
    /\ BackToLoop
    /\ is_shut_down' = FALSE
    /\ pc' = "except"
    /\ UNCHANGED <<pending, total, late>>
    /\ UNCHANGED <<argv, exit_code, port, name, server>>
    /\ UNCHANGED stdout

\* The signal raises KeyboardInterrupt in the main thread, wherever it is
\* inside serve_forever; serve_forever exits (marking itself shut down on the
\* way out) and run_backend's except clause is entered.
Interrupt ==
    /\ pc = "serving"
    /\ interrupted' = TRUE
    /\ inflight' = IF cur = 0 THEN {} ELSE {cur}
    /\ conns' = Unwind(conns)
    /\ BackToLoop
    /\ is_shut_down' = TRUE
    /\ pc' = "except"
    /\ UNCHANGED <<pending, total, late>>
    /\ UNCHANGED <<argv, exit_code, port, name, server>>
    /\ UNCHANGED stdout

\* print(f"\nShutting down backend '{name}'")
PrintShutdown ==
    /\ pc = "except"
    /\ stdout' = Append(stdout, ShutdownLine(name))
    /\ pc' = "shutdown"
    /\ UNCHANGED <<argv, exit_code, port, name, server, is_shut_down>>
    /\ UNCHANGED netVars
    /\ UNCHANGED sigVars

\* server.shutdown() waits for the loop to have exited, then run_backend
\* returns and the process ends normally.
Shutdown ==
    /\ pc = "shutdown"
    /\ is_shut_down
    /\ exit_code' = 0
    /\ pc' = "exited"
    /\ UNCHANGED <<argv, port, name, server, is_shut_down>>
    /\ UNCHANGED netVars
    /\ UNCHANGED sigVars
    /\ UNCHANGED stdout

----------------------------------------------------------------------------

Next ==
    \/ MainUsage
    \/ MainBadPort
    \/ MainRunBackend
    \/ MainBindError
    \/ ClientConnect
    \/ ClientSend
    \/ ClientClose
    \/ Accept
    \/ DoGetHead
    \/ DoGetWrite
    \/ DoPostParse
    \/ DoPostParseError
    \/ DoPostRead
    \/ DoPostHead
    \/ DoPostWrite
    \/ Interrupt
    \/ PrintShutdown
    \/ Shutdown

Spec == Init /\ [][Next]_vars

\* After the interrupt the main thread keeps running: it prints, then calls
\* shutdown(); nothing else is scheduled in between.
FairSpec == Spec /\ WF_vars(PrintShutdown) /\ WF_vars(Shutdown)

----------------------------------------------------------------------------
(* Vocabulary of the properties *)

GetKeys == {"backend", "port", "path", "method", "timestamp"}
PostKeys == GetKeys \cup {"body_length"}

Conn(i) == conns[i]

\* The handler of connection i ran to its end, by returning or by raising.
Handled(i) == Conn(i).state \in {"done", "crashed"}

\* A JSON body was written on connection i.
Answered(i) == Conn(i).bodies # <<>>

\* The Content-Length header of connection i is absent or int() rejects it.
NoUsableLength(i) ==
    \/ "Content-Length" \notin DOMAIN Conn(i).headers
    \/ ~PyInt(Conn(i).headers["Content-Length"]).ok

\* Everything written so far, over all connections.
RECURSIVE Written(_)
Written(cs) ==
    IF cs = <<>> THEN 0
    ELSE Head(cs).status_lines + Head(cs).header_blocks + Len(Head(cs).bodies)
         + Written(Tail(cs))

WithoutTimestamp(b) == [k \in DOMAIN b \ {"timestamp"} |-> b[k]]

SameRequest(i, j) ==
    /\ Conn(i).method = Conn(j).method
    /\ Conn(i).path = Conn(j).path
    /\ Conn(i).headers = Conn(j).headers

\* do_POST is inside rfile.read and the read cannot return yet.
BlockedInRead == cur # 0 /\ hpc = "read" /\ ~ReadReturns(content_length)

----------------------------------------------------------------------------
(* Properties *)

\* C1: every POST whose Content-Length is missing or does not parse as an
\* integer is handled without a crash, reads no body byte and is answered
\* with one 200 response whose body_length is 0.
C1_UnusableLengthReadsNothing ==
    \A i \in DOMAIN conns :
        (Conn(i).method = "POST" /\ Handled(i) /\ NoUsableLength(i))
        => /\ Conn(i).state = "done"
           /\ Conn(i).body_read = 0
           /\ Conn(i).status_lines = 1
           /\ Len(Conn(i).bodies) = 1
           /\ Conn(i).bodies[1].body_length = 0

\* C2: the body_length of every POST response is the number of body bytes
\* the handler actually read.
C2_BodyLengthIsBytesRead ==
    \A i \in DOMAIN conns :
        Conn(i).method = "POST"
        => \A k \in DOMAIN Conn(i).bodies :
               Conn(i).bodies[k].body_length = Conn(i).body_read

\* C3: every GET response has exactly the keys backend, port, path, method,
\* timestamp and method "GET"; every POST response has those keys plus
\* body_length and method "POST".
C3_ResponseKeys ==
    \A i \in DOMAIN conns :
        \A k \in DOMAIN Conn(i).bodies :
            LET b == Conn(i).bodies[k] IN
            /\ b.method = Conn(i).method
            /\ Conn(i).method = "GET" => DOMAIN b = GetKeys
            /\ Conn(i).method = "POST" => DOMAIN b = PostKeys

C3_Witness ==
    \E i, j \in DOMAIN conns :
        /\ Conn(i).method = "GET" /\ Answered(i)
        /\ Conn(j).method = "POST" /\ Answered(j)

\* C4: once run_backend(port, name) has built the server, the server's two
\* identity fields are name and port, and every response written carries
\* backend = name and port = port, whatever requests were handled before.
C4_IdentityInEveryResponse ==
    server.created
    => /\ server.backend_name = name
       /\ server.server_port = port
       /\ \A i \in DOMAIN conns :
              \A k \in DOMAIN Conn(i).bodies :
                  /\ Conn(i).bodies[k].backend = name
                  /\ Conn(i).bodies[k].port = port

C4_Witness ==
    /\ Len(argv) > 2
    /\ \E i, j \in DOMAIN conns :
          /\ i < j
          /\ Conn(i).method = "POST" /\ Answered(i)
          /\ Conn(j).method = "GET" /\ Answered(j)

\* C5: a request that is inside its handler when the interrupt arrives is
\* not cut short: by the time the process has stopped, its response has
\* been written in full.
C5_InFlightRequestCompletes ==
    pc = "exited"
    => \A i \in inflight :
           /\ Conn(i).state = "done"
           /\ Conn(i).status_lines = 1
           /\ Conn(i).header_blocks = 1
           /\ Len(Conn(i).bodies) = 1

\* C6: after the interrupt no connection is accepted and nothing more is
\* written on any connection, and the shutdown always finishes: the notice
\* naming the backend is printed, shutdown() returns and the process exits.
C6_ShutdownAfterInterrupt ==
    /\ [][interrupted
          => /\ Len(conns') = Len(conns)
             /\ Written(conns') = Written(conns)]_vars
    /\ interrupted ~> (/\ pc = "exited"
                        /\ exit_code = 0
                        /\ ShutdownLine(server.backend_name) \in Range(stdout))

C6_Witness ==
    /\ pc = "exited"
    /\ interrupted
    /\ late > 0
    /\ pending > 0
    /\ ShutdownLine(name) \in Range(stdout)

\* C7: started without a port argument the program only prints the usage
\* message and exits with status 1; no server is built, no name is computed
\* and run_backend is not entered.  A server exists only if a port argument
\* was given.
C7_NoPortNoServer ==
    /\ Len(argv) < 2
       => /\ ~server.created
          /\ name = <<>>
          /\ pc \in {"main", "exited"}
          /\ pc = "exited" => /\ exit_code = 1
                              /\ stdout = UsageLines
    /\ server.created => Len(argv) >= 2

C7_Witness == Len(argv) < 2 /\ pc = "exited"

\* C8: every accepted request whose handling has ended got exactly one
\* response: one status line, one header block, one JSON body.
C8_ExactlyOneResponse ==
    \A i \in DOMAIN conns :
        Handled(i)
        => /\ Conn(i).status_lines = 1
           /\ Conn(i).header_blocks = 1
           /\ Len(Conn(i).bodies) = 1

\* The fields of the response to connection i, as a function of the request
\* and of the two identity fields only.
DerivedFromRequest(i) ==
    LET base == [backend |-> name, port |-> port, path |-> Conn(i).path,
                 method |-> Conn(i).method]
    IN  IF Conn(i).method = "POST"
        THEN base @@ ("body_length" :> ContentLength(Conn(i).headers).val)
        ELSE base

\* C9: a response depends on nothing but its own request and the two
\* identity fields: apart from the timestamp it is derivable from them, its
\* path is the request target as received, and two equal requests handled
\* at different points of the server's life get equal responses.
C9_NoCrossRequestState ==
    /\ \A i \in DOMAIN conns :
           \A k \in DOMAIN Conn(i).bodies :
               /\ WithoutTimestamp(Conn(i).bodies[k]) = DerivedFromRequest(i)
               /\ Conn(i).bodies[k].path = Conn(i).path
    /\ \A i, j \in DOMAIN conns :
           (SameRequest(i, j) /\ Answered(i) /\ Answered(j))
           => WithoutTimestamp(Conn(i).bodies[1]) = WithoutTimestamp(Conn(j).bodies[1])

C9_Witness ==
    \E i, j \in DOMAIN conns :
        /\ i < j
        /\ SameRequest(i, j)
        /\ Conn(i).method = "POST"
        /\ Answered(i) /\ Answered(j)
        /\ Conn(i).bodies[1].timestamp # Conn(j).bodies[1].timestamp
        /\ Conn(i).body_read # Conn(j).body_read

\* C10: at most one request is inside a handler, and while one is, the next
\* pending connection cannot be accepted; in particular a POST blocked in
\* its body read holds back every pending connection.
C10_OneAtATime ==
    /\ Cardinality({ i \in DOMAIN conns : Conn(i).state = "handling" }) <= 1
    /\ cur # 0 => Conn(cur).state = "handling"
    /\ (\E i \in DOMAIN conns : Conn(i).state = "handling") => ~ENABLED Accept

C10_Witness == BlockedInRead /\ pending > 0 /\ Len(conns) = 1

====
